---- MODULE Spec2Model ----
(***************************************************************************)
(* chat2txt: the transcript engine of chat2txt/processor.py.               *)
(* Python str values are TLA+ strings; Len, SubSeq and \o act on them      *)
(* character by character.                                                 *)
(***************************************************************************)
EXTENDS Integers, Sequences, FiniteSets, TLC

\* ------------------------------------------------------------------------
\* Characters and the str methods the engine uses
\* ------------------------------------------------------------------------

\* s[i-1:i]: the character at position i (from 1), "" outside the string
Char(s, i) == IF 1 <= i /\ i <= Len(s) THEN SubSeq(s, i, i) ELSE ""

\* the whitespace of \s and of str.strip()
IsSpace(c) == c \in {" ", "\t", "\n", "\r", "\f"}

\* \d
IsDigit(c) == c \in {"0", "1", "2", "3", "4", "5", "6", "7", "8", "9"}

\* \w
IsWord(c) ==
    \/ IsDigit(c)
    \/ c = "_"
    \/ c \in {"a", "b", "c", "d", "e", "f", "g", "h", "i", "j", "k", "l", "m",
              "n", "o", "p", "q", "r", "s", "t", "u", "v", "w", "x", "y", "z"}
    \/ c \in {"A", "B", "C", "D", "E", "F", "G", "H", "I", "J", "K", "L", "M",
              "N", "O", "P", "Q", "R", "S", "T", "U", "V", "W", "X", "Y", "Z"}

\* s[i:].startswith(t), i counted from 1
StartsWithAt(s, i, t) ==
    /\ i + Len(t) - 1 <= Len(s)
    /\ SubSeq(s, i, i + Len(t) - 1) = t

\* sub in s
Contains(s, sub) ==
    \E i \in 1..(Len(s) - Len(sub) + 1) : SubSeq(s, i, i + Len(sub) - 1) = sub

\* the end of the longest run of characters of class P that starts at i
\* (i - 1 when the character at i is not in P)
RECURSIVE SpaceRunEnd(_, _)
SpaceRunEnd(s, i) ==
    IF i <= Len(s) /\ IsSpace(Char(s, i)) THEN SpaceRunEnd(s, i + 1) ELSE i - 1

RECURSIVE NonSpaceRunEnd(_, _)
NonSpaceRunEnd(s, i) ==
    IF i <= Len(s) /\ ~IsSpace(Char(s, i)) THEN NonSpaceRunEnd(s, i + 1) ELSE i - 1

RECURSIVE WordRunEnd(_, _)
WordRunEnd(s, i) ==
    IF i <= Len(s) /\ IsWord(Char(s, i)) THEN WordRunEnd(s, i + 1) ELSE i - 1

RECURSIVE DigitRunEnd(_, _)
DigitRunEnd(s, i) ==
    IF i <= Len(s) /\ IsDigit(Char(s, i)) THEN DigitRunEnd(s, i + 1) ELSE i - 1

\* the least element of a non-empty set of positions
First(S) == CHOOSE k \in S : \A j \in S : k <= j

\* splitting on the characters of seps (str.split with a one-character
\* separator, re.split with a character class), from position start on: one
\* piece per separator and the rest, so never an empty sequence
RECURSIVE SplitFrom(_, _, _)
SplitFrom(s, seps, start) ==
    LET at == {k \in start..Len(s) : Char(s, k) \in seps}
    IN  IF at = {} THEN <<SubSeq(s, start, Len(s))>>
        ELSE <<SubSeq(s, start, First(at) - 1)>>
                 \o SplitFrom(s, seps, First(at) + 1)

Split(s, seps) == SplitFrom(s, seps, 1)

\* s.rstrip(chars)
RECURSIVE RStrip(_, _)
RStrip(s, chars) ==
    IF Len(s) > 0 /\ Char(s, Len(s)) \in chars
    THEN RStrip(SubSeq(s, 1, Len(s) - 1), chars)
    ELSE s

\* s.strip()
RECURSIVE LStripSpace(_)
LStripSpace(s) ==
    IF Len(s) > 0 /\ IsSpace(Char(s, 1)) THEN LStripSpace(SubSeq(s, 2, Len(s))) ELSE s

RECURSIVE RStripSpace(_)
RStripSpace(s) ==
    IF Len(s) > 0 /\ IsSpace(Char(s, Len(s)))
    THEN RStripSpace(SubSeq(s, 1, Len(s) - 1))
    ELSE s

Strip(s) == LStripSpace(RStripSpace(s))

\* ------------------------------------------------------------------------
\* segment_into_c_units
\* ------------------------------------------------------------------------

\* r'&-(\w+)' tried at position i: the end of the match, 0 when there is none
AmpMatchEnd(s, i) ==
    IF StartsWithAt(s, i, "&-") /\ WordRunEnd(s, i + 2) >= i + 2
    THEN WordRunEnd(s, i + 2)
    ELSE 0

\* re.sub(r'&-(\w+)', r'(\1)', text) from position i on: the text up to the
\* leftmost match is kept, the match is replaced, the scan goes on behind it
RECURSIVE SubAmpFrom(_, _)
SubAmpFrom(s, i) ==
    LET at == {k \in i..Len(s) : AmpMatchEnd(s, k) > 0}
    IN  IF at = {} THEN SubSeq(s, i, Len(s))
        ELSE LET k == First(at)
                 e == AmpMatchEnd(s, k)
             IN  SubSeq(s, i, k - 1) \o "(" \o SubSeq(s, k + 2, e) \o ")"
                     \o SubAmpFrom(s, e + 1)

\* re.sub(r'&-(\w+)', r'(\1)', text, count=1): only the leftmost match
SubAmpOnce(s) ==
    LET at == {k \in 1..Len(s) : AmpMatchEnd(s, k) > 0}
    IN  IF at = {} THEN s
        ELSE LET k == First(at)
                 e == AmpMatchEnd(s, k)
             IN  SubSeq(s, 1, k - 1) \o "(" \o SubSeq(s, k + 2, e) \o ")"
                     \o SubSeq(s, e + 1, Len(s))

SubAmp(s) == SubAmpFrom(s, 1)

\* the position of the first '>' at or after i, 0 when there is none
FirstGt(s, i) ==
    LET at == {k \in i..Len(s) : Char(s, k) = ">"}
    IN  IF at = {} THEN 0 ELSE First(at)

\* r'<([^>]+)>\s*\[/\]\s*' tried at position i: the pattern without its
\* backreference, which takes a bracketed phrase whatever follows the marker
MultiMatchAtAnyText(s, i) ==
    LET g    == FirstGt(s, i + 1)
        grp  == SubSeq(s, i + 1, g - 1)
        m    == SpaceRunEnd(s, g + 1) + 1
        w    == SpaceRunEnd(s, m + 3)
    IN  IF /\ Char(s, i) = "<"
           /\ g > i + 1
           /\ StartsWithAt(s, m, "[/]")
        THEN [grp |-> grp, end |-> w]
        ELSE [grp |-> "", end |-> 0]

\* r'<([^>]+)>\s*\[/\]\s*\1' tried at position i: [grp, end] of the match the
\* backtracking engine finds first, end = 0 when there is none.  [^>]+ must
\* stop at the first '>'; the first \s* stands before a literal '[' and takes
\* the whole run; the second \s* is greedy and gives back characters until
\* the backreference fits.
MultiMatchAt(s, i) ==
    LET g    == FirstGt(s, i + 1)
        grp  == SubSeq(s, i + 1, g - 1)
        m    == SpaceRunEnd(s, g + 1) + 1
        w    == SpaceRunEnd(s, m + 3)
        ks   == {k \in (m + 3)..(w + 1) : StartsWithAt(s, k, grp)}
        k    == CHOOSE x \in ks : \A y \in ks : y <= x
    IN  IF /\ Char(s, i) = "<"
           /\ g > i + 1
           /\ StartsWithAt(s, m, "[/]")
           /\ ks # {}
        THEN [grp |-> grp, end |-> k + Len(grp) - 1]
        ELSE [grp |-> "", end |-> 0]

\* re.sub(r'<([^>]+)>\s*\[/\]\s*\1', r'(\1) \1', text)
RECURSIVE SubMultiFrom(_, _)
SubMultiFrom(s, i) ==
    LET at == {k \in i..Len(s) : MultiMatchAt(s, k).end > 0}
    IN  IF at = {} THEN SubSeq(s, i, Len(s))
        ELSE LET k == First(at)
                 r == MultiMatchAt(s, k)
             IN  SubSeq(s, i, k - 1) \o "(" \o r.grp \o ") " \o r.grp
                     \o SubMultiFrom(s, r.end + 1)

SubMulti(s) == SubMultiFrom(s, 1)

\* r'(\S+)\s*\[/\]\s*\1' with the group taken as s[i..j]: the end of the
\* match, 0 when there is none.  Both \s* stand before a non-space character
\* and take the whole run of whitespace.
SingleMatchEnd(s, i, j) ==
    LET grp == SubSeq(s, i, j)
        m   == SpaceRunEnd(s, j + 1) + 1
        k   == SpaceRunEnd(s, m + 3) + 1
    IN  IF StartsWithAt(s, m, "[/]") /\ StartsWithAt(s, k, grp)
        THEN k + Len(grp) - 1
        ELSE 0

\* the pattern tried at position i: \S+ is greedy, so the longest group that
\* lets the rest match wins
SingleMatchAt(s, i) ==
    LET js == {j \in i..NonSpaceRunEnd(s, i) : SingleMatchEnd(s, i, j) > 0}
        j  == CHOOSE x \in js : \A y \in js : y <= x
    IN  IF js # {}
        THEN [grp |-> SubSeq(s, i, j), end |-> SingleMatchEnd(s, i, j)]
        ELSE [grp |-> "", end |-> 0]

\* re.sub(r'(\S+)\s*\[/\]\s*\1', r'(\1) \1', text)
RECURSIVE SubSingleFrom(_, _)
SubSingleFrom(s, i) ==
    LET at == {k \in i..Len(s) : SingleMatchAt(s, k).end > 0}
    IN  IF at = {} THEN SubSeq(s, i, Len(s))
        ELSE LET k == First(at)
                 r == SingleMatchAt(s, k)
             IN  SubSeq(s, i, k - 1) \o "(" \o r.grp \o ") " \o r.grp
                     \o SubSingleFrom(s, r.end + 1)

SubSingle(s) == SubSingleFrom(s, 1)

\* a split that leaves '!' in place
TerminatorsNoBang == {".", "?"}

\* the characters re.split(r'[.?!]', text) splits on
Terminators == {".", "?", "!"}

\* the loop with the emptiness test ahead of the strip: a fragment of
\* whitespace is kept
RECURSIVE FinishUnitsUntrimmed(_)
FinishUnitsUntrimmed(raw) ==
    IF raw = <<>> THEN <<>>
    ELSE IF Head(raw) # ""
         THEN <<Strip(Head(raw)) \o ".">> \o FinishUnitsUntrimmed(Tail(raw))
         ELSE FinishUnitsUntrimmed(Tail(raw))

\* the loop over raw_units: strip, drop the empty ones, add the final period
RECURSIVE FinishUnits(_)
FinishUnits(raw) ==
    IF raw = <<>> THEN <<>>
    ELSE LET unit == Strip(Head(raw))
             done == IF Len(unit) > 0 /\ Char(unit, Len(unit)) = "."
                     THEN unit
                     ELSE unit \o "."
         IN  IF unit # ""
             THEN <<done>> \o FinishUnits(Tail(raw))
             ELSE FinishUnits(Tail(raw))

\* the parameter `text` and its value after each of the three re.sub calls
RewriteSteps(text) ==
    LET fillers == SubAmp(text)
        phrases == SubMulti(fillers)
        words   == SubSingle(phrases)
    IN  <<text, fillers, phrases, words>>

segment_into_c_units(text) ==
    FinishUnits(Split(RewriteSteps(text)[4], Terminators))

\* ------------------------------------------------------------------------
\* Module-level objects of processor.py
\* ------------------------------------------------------------------------

\* BODY_LINE_REGEX.match(line) for r'^\*PAR(\d+):\s+(.*) . (\S+_\S+)$'.
\* The engine tries the greedy choices longest first: \d+ must stop where the
\* digits stop (a ':' follows); \s+ takes the longest run that still lets the
\* rest match; (.*) the longest text that is followed by a space, one
\* character, a space and a code \S+_\S+ reaching the end of the line.
\* '.' matches any character but a newline.
IsTimingCode(c) ==
    /\ NonSpaceRunEnd(c, 1) = Len(c)
    /\ \E u \in 2..(Len(c) - 1) : Char(c, u) = "_"

\* the pattern with \s in place of \s+: one whitespace character behind the
\* colon, the rest of the run left to the text
BodyMatchOneSpace(line) ==
    LET n    == Len(line)
        de   == DigitRunEnd(line, 5)
        tes  == {te \in (de + 2)..(n - 6) :
                    /\ Char(line, te + 1) = " "
                    /\ Char(line, te + 2) \notin {"", "\n"}
                    /\ Char(line, te + 3) = " "
                    /\ IsTimingCode(SubSeq(line, te + 4, n))}
        cand == {te \in tes :
                    \A k \in (de + 3)..te : Char(line, k) # "\n"}
        best == CHOOSE te \in cand : TRUE
    IN  IF /\ StartsWithAt(line, 1, "*PAR")
           /\ de >= 5
           /\ Char(line, de + 1) = ":"
           /\ IsSpace(Char(line, de + 2))
           /\ cand # {}
        THEN [ok   |-> TRUE,
              par  |-> SubSeq(line, 5, de),
              text |-> SubSeq(line, de + 3, best),
              code |-> SubSeq(line, best + 4, n)]
        ELSE [ok |-> FALSE, par |-> "", text |-> "", code |-> ""]

\* the match of the pattern on a line, and its three groups
BodyMatch(line) ==
    LET n    == Len(line)
        de   == DigitRunEnd(line, 5)
        ws   == SpaceRunEnd(line, de + 2)
        tes  == {te \in (de + 2)..(n - 6) :
                    /\ Char(line, te + 1) = " "
                    /\ Char(line, te + 2) \notin {"", "\n"}
                    /\ Char(line, te + 3) = " "
                    /\ IsTimingCode(SubSeq(line, te + 4, n))}
        cand == {c \in ((de + 2)..ws) \X tes :
                    /\ c[1] <= c[2]
                    /\ \A k \in (c[1] + 1)..c[2] : Char(line, k) # "\n"}
        best == CHOOSE c \in cand :
                    \A d \in cand : d[1] < c[1] \/ (d[1] = c[1] /\ d[2] <= c[2])
    IN  IF /\ StartsWithAt(line, 1, "*PAR")
           /\ de >= 5
           /\ Char(line, de + 1) = ":"
           /\ cand # {}
        THEN [ok   |-> TRUE,
              par  |-> SubSeq(line, 5, de),
              text |-> SubSeq(line, best[1] + 1, best[2]),
              code |-> SubSeq(line, best[2] + 4, n)]
        ELSE [ok |-> FALSE, par |-> "", text |-> "", code |-> ""]

\* PROMPTS, in the dict's insertion order
PROMPTS ==
    << [name |-> "happy",
        phrase |-> "story about a time when you felt excited or really happy"],
       [name |-> "angry",
        phrase |-> "story about a time when you were really annoyed or angry"],
       [name |-> "confused",
        phrase |-> "story about a time when you felt worried or confused"],
       [name |-> "proud",
        phrase |-> "story about a time when you felt proud of yourself"],
       [name |-> "problem",
        phrase |-> "story about a time when you had a problem"],
       [name |-> "important",
        phrase |-> "story about something that has happened to you that was very important to you"] >>

PromptNames == {PROMPTS[k].name : k \in 1..Len(PROMPTS)}

\* ------------------------------------------------------------------------
\* int(), f-string formatting
\* ------------------------------------------------------------------------

Digits == "0123456789"

DigitVal(c) == CHOOSE d \in 0..9 : Char(Digits, d + 1) = c

RECURSIVE DecVal(_)
DecVal(s) ==
    IF s = "" THEN 0
    ELSE DecVal(SubSeq(s, 1, Len(s) - 1)) * 10 + DigitVal(Char(s, Len(s)))

\* int(s): surrounding whitespace is dropped, one sign is allowed, the rest
\* must be decimal digits; anything else raises ValueError
IntParse(s) ==
    LET t    == Strip(s)
        sign == IF Len(t) > 0 /\ Char(t, 1) \in {"+", "-"} THEN Char(t, 1) ELSE ""
        body == IF sign = "" THEN t ELSE SubSeq(t, 2, Len(t))
    IN  IF Len(body) > 0 /\ DigitRunEnd(body, 1) = Len(body)
        THEN [raised |-> "none",
              val    |-> IF sign = "-" THEN 0 - DecVal(body) ELSE DecVal(body)]
        ELSE [raised |-> "ValueError", val |-> 0]

\* str(n) as an f-string writes it
RECURSIVE NatStr(_)
NatStr(n) ==
    IF n < 10 THEN Char(Digits, n + 1)
    ELSE NatStr(n \div 10) \o Char(Digits, (n % 10) + 1)

IntStr(n) == IF n < 0 THEN "-" \o NatStr(0 - n) ELSE NatStr(n)

\* f"{n:02d}"
Pad02(n) == IF Len(IntStr(n)) < 2 THEN "0" \o IntStr(n) ELSE IntStr(n)

\* ------------------------------------------------------------------------
\* process_cha_content: the state of its invocations
\* ------------------------------------------------------------------------

\* how many invocations of process_cha_content the model holds at once
NumCalls == 2

Procs == 1..NumCalls

\* Python's None, and the value of a local that is not bound yet
None == "None"

VARIABLES
    content,          \* argument: the transcript text
    include_prompts,  \* argument
    pc,               \* where the invocation stands
    output,           \* what has been written to the StringIO
    lines,            \* content.split('\n')
    idx,              \* position of the running `for line in lines`, from 1
    prompt_par,
    last_timestamp,
    prompts_found,
    par_num,
    utterance_text,
    c_units,
    seg_text,         \* the values `text` took in the last segment_into_c_units
    prefix,
    cu_idx,           \* position of the running `for cu in c_units`, from 1
    raised,           \* the exception that left the invocation, or "none"
    result            \* the returned tuple

vars == <<content, include_prompts, pc, output, lines, idx, prompt_par,
          last_timestamp, prompts_found, par_num, utterance_text, c_units,
          seg_text, prefix, cu_idx, raised, result>>

\* the characters line.rstrip('\r\n\x15') removes
StripChars == {"\r", "\n", ""}

\* a handler that misses ValueError
CaughtIndexErrorOnly == {"IndexError"}

\* except (ValueError, IndexError): pass
Caught == {"ValueError", "IndexError"}

\* a tracker that keeps the largest value seen: max(last_timestamp, ...)
ExtractTimestampMax(timestamp_code, last) ==
    LET segs == Split(timestamp_code, {"_"})
        r    == IF Len(segs) = 0
                THEN [raised |-> "IndexError", val |-> 0]
                ELSE IntParse(segs[Len(segs)])
    IN  IF r.raised = "none"
        THEN [raised |-> "none", ts |-> IF r.val > last THEN r.val ELSE last]
        ELSE IF r.raised \in Caught
             THEN [raised |-> "none", ts |-> last]
             ELSE [raised |-> r.raised, ts |-> last]

\* the try block around int(timestamp_code.split('_')[-1]): the exception
\* that leaves it ("none" when it is caught or there is none) and the new
\* value of last_timestamp
ExtractTimestamp(timestamp_code, last) ==
    LET segs == Split(timestamp_code, {"_"})
        r    == IF Len(segs) = 0
                THEN [raised |-> "IndexError", val |-> 0]
                ELSE IntParse(segs[Len(segs)])
    IN  IF r.raised = "none"
        THEN [raised |-> "none", ts |-> r.val]
        ELSE IF r.raised \in Caught
             THEN [raised |-> "none", ts |-> last]
             ELSE [raised |-> r.raised, ts |-> last]

\* a resolver that keeps the first sighting: `if prompt_par is None and ...`
ResolvePromptParFirst(cur, par, text) ==
    IF cur = None /\ Contains(text, "listen to each prompt") THEN par ELSE cur

\* if 'listen to each prompt' in utterance_text: prompt_par = par_num
ResolvePromptPar(cur, par, text) ==
    IF Contains(text, "listen to each prompt") THEN par ELSE cur

\* prompts_found = {prompt: False for prompt in PROMPTS.keys()}
FreshPromptsFound == [n \in PromptNames |-> FALSE]

\* the role decided on the numbers the ids denote
RolePrefixNumeric(pp, par) ==
    IF pp # None /\ pp # "" /\ DecVal(par) = DecVal(pp) THEN "E" ELSE "C"

\* if prompt_par and par_num == prompt_par: prefix = 'E' else: prefix = 'C'
RolePrefix(pp, par) ==
    IF pp # None /\ pp # "" /\ par = pp THEN "E" ELSE "C"

\* the inner loop over PROMPTS.items() for one C-unit, from entry k on: the
\* '+ <name>' lines it writes
RECURSIVE TagLinesFrom(_, _)
TagLinesFrom(text, k) ==
    IF k > Len(PROMPTS) THEN ""
    ELSE (IF Contains(text, PROMPTS[k].phrase)
          THEN "+ " \o PROMPTS[k].name \o "\n"
          ELSE "") \o TagLinesFrom(text, k + 1)

\* the tags written whether or not prompts are enabled
UnitLinesAlwaysTagged(pre, cu, text, incl) ==
    pre \o " " \o cu \o "\n" \o TagLinesFrom(text, 1)

\* the phrases looked for in the C-unit instead of the utterance's raw text
UnitLinesByUnit(pre, cu, text, incl) ==
    pre \o " " \o cu \o "\n" \o (IF incl THEN TagLinesFrom(cu, 1) ELSE "")

\* the tags written ahead of the C-unit line they belong to
UnitLinesTagsFirst(pre, cu, text, incl) ==
    (IF incl THEN TagLinesFrom(text, 1) ELSE "") \o pre \o " " \o cu \o "\n"

\* what one turn of `for cu in c_units` writes
UnitLines(pre, cu, text, incl) ==
    pre \o " " \o cu \o "\n" \o (IF incl THEN TagLinesFrom(text, 1) ELSE "")

\* the map rebuilt for every utterance, forgetting the earlier ones
MarkFoundThisUtterance(found, text, incl) ==
    [n \in PromptNames |->
        incl /\ \E k \in 1..Len(PROMPTS) :
                    PROMPTS[k].name = n /\ Contains(text, PROMPTS[k].phrase)]

\* prompts_found after one turn of `for cu in c_units`
MarkFound(found, text, incl) ==
    [n \in PromptNames |->
        IF incl /\ \E k \in 1..Len(PROMPTS) :
                      PROMPTS[k].name = n /\ Contains(text, PROMPTS[k].phrase)
        THEN TRUE
        ELSE found[n]]

\* the closing line written for a zero timestamp too
ClosingLineFromZero(ts) ==
    IF ts >= 0
    THEN "- " \o IntStr((ts \div 1000) \div 60) \o ":"
              \o Pad02((ts \div 1000) % 60) \o "\n"
    ELSE ""

\* the closing line with the minutes wrapped into hours
ClosingLineWrapped(ts) ==
    IF ts > 0
    THEN "- " \o IntStr(((ts \div 1000) \div 60) % 60) \o ":"
              \o Pad02((ts \div 1000) % 60) \o "\n"
    ELSE ""

\* the closing timestamp line, "" when none is written
ClosingLine(ts) ==
    IF ts > 0
    THEN LET total_seconds == ts \div 1000
             minutes       == total_seconds \div 60
             seconds       == total_seconds % 60
         IN  "- " \o IntStr(minutes) \o ":" \o Pad02(seconds) \o "\n"
    ELSE ""

\* ------------------------------------------------------------------------
\* process_cha_content: its steps
\* ------------------------------------------------------------------------

\* entry with a buffer that is not fresh: it holds what another invocation
\* has written so far
EnterStaleBuffer(p) ==
    /\ pc[p] = "start"
    /\ output' = [output EXCEPT ![p] =
                     IF \E q \in Procs : q # p /\ output[q] # None
                     THEN output[CHOOSE q \in Procs : q # p /\ output[q] # None]
                     ELSE ""]
    /\ lines' = [lines EXCEPT ![p] = Split(content[p], {"\n"})]
    /\ prompt_par' = [prompt_par EXCEPT ![p] = None]
    /\ last_timestamp' = [last_timestamp EXCEPT ![p] = 0]
    /\ idx' = [idx EXCEPT ![p] = 1]
    /\ pc' = [pc EXCEPT ![p] = "pass1"]
    /\ UNCHANGED <<content, include_prompts, prompts_found, par_num,
                   utterance_text, c_units, seg_text, prefix, cu_idx, raised,
                   result>>

\* entry with the trackers kept at module level: an invocation starts from
\* what another invocation has tracked so far
EnterSharedTrackers(p) ==
    /\ pc[p] = "start"
    /\ output' = [output EXCEPT ![p] = ""]
    /\ lines' = [lines EXCEPT ![p] = Split(content[p], {"\n"})]
    /\ LET others == {q \in Procs \ {p} : pc[q] \notin {"start", "unused"}}
       IN  IF others = {}
           THEN /\ prompt_par' = [prompt_par EXCEPT ![p] = None]
                /\ last_timestamp' = [last_timestamp EXCEPT ![p] = 0]
           ELSE LET q == CHOOSE o \in others : TRUE
                IN  /\ prompt_par' = [prompt_par EXCEPT ![p] = prompt_par[q]]
                    /\ last_timestamp' =
                           [last_timestamp EXCEPT ![p] = last_timestamp[q]]
    /\ idx' = [idx EXCEPT ![p] = 1]
    /\ pc' = [pc EXCEPT ![p] = "pass1"]
    /\ UNCHANGED <<content, include_prompts, prompts_found, par_num,
                   utterance_text, c_units, seg_text, prefix, cu_idx, raised,
                   result>>

\* entry: output = StringIO(), lines = content.split('\n'), prompt_par = None,
\* last_timestamp = 0
Enter(p) ==
    /\ pc[p] = "start"
    /\ output' = [output EXCEPT ![p] = ""]
    /\ lines' = [lines EXCEPT ![p] = Split(content[p], {"\n"})]
    /\ prompt_par' = [prompt_par EXCEPT ![p] = None]
    /\ last_timestamp' = [last_timestamp EXCEPT ![p] = 0]
    /\ idx' = [idx EXCEPT ![p] = 1]
    /\ pc' = [pc EXCEPT ![p] = "pass1"]
    /\ UNCHANGED <<content, include_prompts, prompts_found, par_num,
                   utterance_text, c_units, seg_text, prefix, cu_idx, raised,
                   result>>

\* one turn of the first loop
Pass1Line(p) ==
    /\ pc[p] = "pass1"
    /\ idx[p] <= Len(lines[p])
    /\ LET line == RStrip(lines[p][idx[p]], StripChars)
           m    == BodyMatch(line)
           t    == ExtractTimestamp(Strip(m.code), last_timestamp[p])
       IN  IF ~m.ok
           THEN /\ idx' = [idx EXCEPT ![p] = @ + 1]
                /\ UNCHANGED <<pc, par_num, utterance_text, last_timestamp,
                               prompt_par, raised>>
           ELSE /\ par_num' = [par_num EXCEPT ![p] = m.par]
                /\ utterance_text' = [utterance_text EXCEPT ![p] = m.text]
                /\ last_timestamp' = [last_timestamp EXCEPT ![p] = t.ts]
                /\ IF t.raised # "none"
                   THEN /\ raised' = [raised EXCEPT ![p] = t.raised]
                        /\ pc' = [pc EXCEPT ![p] = "raised"]
                        /\ UNCHANGED <<idx, prompt_par>>
                   ELSE /\ prompt_par' = [prompt_par EXCEPT ![p] =
                                             ResolvePromptPar(@, m.par, m.text)]
                        /\ idx' = [idx EXCEPT ![p] = @ + 1]
                        /\ UNCHANGED <<pc, raised>>
    /\ UNCHANGED <<content, include_prompts, output, lines, prompts_found,
                   c_units, seg_text, prefix, cu_idx, result>>

\* between the loops: prompts_found is created, the opening line is written
StartPass2(p) ==
    /\ pc[p] = "pass1"
    /\ idx[p] > Len(lines[p])
    /\ prompts_found' = [prompts_found EXCEPT ![p] = FreshPromptsFound]
    /\ output' = [output EXCEPT ![p] = @ \o "- 0:00\n"]
    /\ idx' = [idx EXCEPT ![p] = 1]
    /\ pc' = [pc EXCEPT ![p] = "pass2"]
    /\ UNCHANGED <<content, include_prompts, lines, prompt_par, last_timestamp,
                   par_num, utterance_text, c_units, seg_text, prefix,
                   cu_idx, raised,
                   result>>

\* one turn of the second loop, up to the loop over the C-units
Pass2Line(p) ==
    /\ pc[p] = "pass2"
    /\ idx[p] <= Len(lines[p])
    /\ LET line  == RStrip(lines[p][idx[p]], StripChars)
           m     == BodyMatch(line)
           t     == ExtractTimestamp(Strip(m.code), last_timestamp[p])
           units == segment_into_c_units(m.text)
       IN  IF ~m.ok
           THEN /\ idx' = [idx EXCEPT ![p] = @ + 1]
                /\ UNCHANGED <<pc, par_num, utterance_text, last_timestamp,
                               c_units, seg_text, prefix, cu_idx, raised>>
           ELSE /\ par_num' = [par_num EXCEPT ![p] = m.par]
                /\ utterance_text' = [utterance_text EXCEPT ![p] = m.text]
                /\ last_timestamp' = [last_timestamp EXCEPT ![p] = t.ts]
                /\ IF t.raised # "none"
                   THEN /\ raised' = [raised EXCEPT ![p] = t.raised]
                        /\ pc' = [pc EXCEPT ![p] = "raised"]
                        /\ UNCHANGED <<idx, c_units, seg_text, prefix, cu_idx>>
                   ELSE /\ c_units' = [c_units EXCEPT ![p] = units]
                        /\ seg_text' = [seg_text EXCEPT ![p] =
                                           RewriteSteps(m.text)]
                        /\ prefix' = [prefix EXCEPT ![p] =
                                         RolePrefix(prompt_par[p], m.par)]
                        /\ cu_idx' = [cu_idx EXCEPT ![p] = 1]
                        /\ IF units = <<>>
                           THEN /\ idx' = [idx EXCEPT ![p] = @ + 1]
                                /\ UNCHANGED pc
                           ELSE /\ pc' = [pc EXCEPT ![p] = "units"]
                                /\ UNCHANGED idx
                        /\ UNCHANGED raised
    /\ UNCHANGED <<content, include_prompts, output, lines, prompt_par,
                   prompts_found, result>>

\* one turn of `for cu in c_units`; after the last one the outer loop goes on
EmitUnit(p) ==
    /\ pc[p] = "units"
    /\ cu_idx[p] <= Len(c_units[p])
    /\ output' = [output EXCEPT ![p] =
                     @ \o UnitLines(prefix[p], c_units[p][cu_idx[p]],
                                    utterance_text[p], include_prompts[p])]
    /\ prompts_found' = [prompts_found EXCEPT ![p] =
                            MarkFound(@, utterance_text[p], include_prompts[p])]
    /\ cu_idx' = [cu_idx EXCEPT ![p] = @ + 1]
    /\ IF cu_idx[p] = Len(c_units[p])
       THEN /\ pc' = [pc EXCEPT ![p] = "pass2"]
            /\ idx' = [idx EXCEPT ![p] = @ + 1]
       ELSE UNCHANGED <<pc, idx>>
    /\ UNCHANGED <<content, include_prompts, lines, prompt_par, last_timestamp,
                   par_num, utterance_text, c_units, seg_text, prefix,
                   raised, result>>

\* after the second loop: the closing line and the return
Finish(p) ==
    /\ pc[p] = "pass2"
    /\ idx[p] > Len(lines[p])
    /\ output' = [output EXCEPT ![p] = @ \o ClosingLine(last_timestamp[p])]
    /\ result' = [result EXCEPT ![p] = <<output'[p], prompts_found[p]>>]
    /\ pc' = [pc EXCEPT ![p] = "done"]
    /\ UNCHANGED <<content, include_prompts, lines, idx, prompt_par,
                   last_timestamp, prompts_found, par_num, utterance_text,
                   c_units, seg_text, prefix, cu_idx, raised>>

Next ==
    \E p \in Procs :
        \/ Enter(p)
        \/ Pass1Line(p)
        \/ StartPass2(p)
        \/ Pass2Line(p)
        \/ EmitUnit(p)
        \/ Finish(p)

\* ------------------------------------------------------------------------
\* Inputs
\* ------------------------------------------------------------------------

\* the invocations of `active` are called with the transcripts cs[p] and the
\* flags fs[p]; the other slots stay unused
Begin(cs, fs, active) ==
    /\ content = [p \in Procs |-> IF p \in active THEN cs[p] ELSE None]
    /\ include_prompts = [p \in Procs |-> IF p \in active THEN fs[p] ELSE FALSE]
    /\ pc = [p \in Procs |-> IF p \in active THEN "start" ELSE "unused"]
    /\ output = [p \in Procs |-> None]
    /\ lines = [p \in Procs |-> None]
    /\ idx = [p \in Procs |-> 0]
    /\ prompt_par = [p \in Procs |-> None]
    /\ last_timestamp = [p \in Procs |-> 0]
    /\ prompts_found = [p \in Procs |-> None]
    /\ par_num = [p \in Procs |-> None]
    /\ utterance_text = [p \in Procs |-> None]
    /\ c_units = [p \in Procs |-> <<>>]
    /\ seg_text = [p \in Procs |-> None]
    /\ prefix = [p \in Procs |-> None]
    /\ cu_idx = [p \in Procs |-> 0]
    /\ raised = [p \in Procs |-> "none"]
    /\ result = [p \in Procs |-> None]

\* one invocation, of transcript c with flag f
BeginOne(c, f) ==
    Begin([p \in Procs |-> c], [p \in Procs |-> f], {1})

\* a body line as CHAT files hold it
BodyLine(par, text, code) == "*PAR" \o par \o ":\t" \o text \o " . " \o code

\* '\n'.join(ls)
RECURSIVE Join(_)
Join(ls) ==
    IF Len(ls) = 0 THEN ""
    ELSE IF Len(ls) = 1 THEN ls[1]
         ELSE ls[1] \o "\n" \o Join(Tail(ls))

\* the sequences of at most n elements of S
RECURSIVE SeqsUpTo(_, _)
SeqsUpTo(S, n) ==
    IF n = 0 THEN {<<>>}
    ELSE LET shorter == SeqsUpTo(S, n - 1)
         IN  shorter \cup {Append(q, x) : q \in shorter, x \in S}

\* the transcripts of at most n lines drawn from ls
Transcripts(ls, n) == {Join(q) : q \in SeqsUpTo(ls, n)}

\* the longest transcript, in lines
MaxLines == 2

\* timing codes: well-formed, zero, signed, not a number, empty last segment,
\* and the bullet-delimited form of CHAT files
TimingCodes ==
    {"xyz_1500", "x_0", "x_61000", "x_3600000", "x_59999", "x_b", "a_b_",
     "x_-5", "x_+7000", "123_4567"}

\* lines the body pattern does not match
OtherLines == {"@Begin", "", "*PAR1:\thi", "%com:\tx . a_1", "*PAR:\thi . a_1"}

MainLines ==
    OtherLines \cup {BodyLine("1", "so ? yes", c) : c \in TimingCodes}

MainTranscripts == Transcripts(MainLines, MaxLines)

Init == \E c \in MainTranscripts, f \in BOOLEAN : BeginOne(c, f)

Spec == Init /\ [][Next]_vars

\* ------------------------------------------------------------------------
\* Reading a transcript and an output
\* ------------------------------------------------------------------------

\* the utterance of line k of invocation p's transcript, as the body pattern
\* extracts it
Utterance(p, k) == BodyMatch(RStrip(lines[p][k], StripChars))

\* the positions of the lines the body pattern matches
Matching(p) == {k \in 1..Len(lines[p]) : Utterance(p, k).ok}

\* the lines of the output; the text after the last newline is empty
OutLines(p) ==
    LET q == Split(output[p], {"\n"}) IN SubSeq(q, 1, Len(q) - 1)

\* does int() accept the last underscore-segment of the code
CodeParses(code) ==
    LET segs == Split(code, {"_"}) IN IntParse(segs[Len(segs)]).raised = "none"

Returned(p) == pc[p] = "done"

\* ------------------------------------------------------------------------
\* C1
\* ------------------------------------------------------------------------

\* C1: no invocation ends in an exception; an invocation that has not
\* returned stands where one of its steps applies (inside the C-unit loop
\* only with a unit left to write), and one that has returned holds the pair
\* (output text, prompt map).
C1_Total ==
    \A p \in Procs :
        /\ raised[p] = "none"
        /\ pc[p] # "raised"
        /\ pc[p] \in {"unused", "start", "pass1", "pass2", "units", "done"}
        /\ pc[p] = "units" => cu_idx[p] \in 1..Len(c_units[p])
        /\ Returned(p) =>
               /\ result[p] = <<output[p], prompts_found[p]>>
               /\ DOMAIN prompts_found[p] = PromptNames

\* an invocation returned on a transcript with a line the pattern does not
\* match and an utterance whose timing code is not an integer
C1_Witness ==
    /\ Returned(1)
    /\ \E k \in 1..Len(lines[1]) : k \notin Matching(1) /\ lines[1][k] # ""
    /\ \E k \in Matching(1) : ~CodeParses(Utterance(1, k).code)

\* ------------------------------------------------------------------------
\* C4
\* ------------------------------------------------------------------------

\* C4: when no line of the transcript matches the body pattern, the returned
\* text is exactly the opening line.
C4_NoMatchOutput ==
    \A p \in Procs :
        Returned(p) /\ Matching(p) = {} => result[p][1] = "- 0:00\n"

\* an invocation returned on a transcript of two non-empty lines, none of
\* them matching
C4_Witness ==
    /\ Returned(1)
    /\ Matching(1) = {}
    /\ Len(lines[1]) = 2
    /\ lines[1][1] # "" /\ lines[1][2] # ""

\* ------------------------------------------------------------------------
\* C7
\* ------------------------------------------------------------------------

\* the closing lines of an output: the '- ' lines after the opening one
ClosingAt(p) ==
    {k \in 2..Len(OutLines(p)) : StartsWithAt(OutLines(p)[k], 1, "- ")}

\* C7: a closing line is written exactly when the final LastTimestamp T is
\* above zero; it is the last line and reads '- M:SS' with M = T div 60000
\* and SS = (T div 1000) mod 60 on two digits; 1500 ms gives '- 0:01' and an
\* hour gives '- 60:00'.
C7_ClosingLine ==
    \A p \in Procs : Returned(p) =>
        LET T  == last_timestamp[p]
            ol == OutLines(p)
        IN  /\ ClosingAt(p) = (IF T > 0 THEN {Len(ol)} ELSE {})
            /\ T > 0 =>
                   ol[Len(ol)] = "- " \o IntStr(T \div 60000) \o ":"
                                      \o Pad02((T \div 1000) % 60)
            /\ T = 1500 => ol[Len(ol)] = "- 0:01"
            /\ T = 7000 => ol[Len(ol)] = "- 0:07"
            /\ T = 59999 => ol[Len(ol)] = "- 0:59"
            /\ T = 61000 => ol[Len(ol)] = "- 1:01"
            /\ T = 3600000 => ol[Len(ol)] = "- 60:00"

\* an invocation returned whose last matching utterance carries the timing
\* code xyz_1500, after an utterance with a larger one
C7_Witness ==
    /\ Returned(1)
    /\ Len(lines[1]) = 2
    /\ Matching(1) = {1, 2}
    /\ Utterance(1, 1).code = "x_3600000"
    /\ Utterance(1, 2).code = "xyz_1500"
    /\ last_timestamp[1] = 1500

\* ------------------------------------------------------------------------
\* C5
\* ------------------------------------------------------------------------

\* the longest transcript of the speaker-role inputs, in lines
MaxRoleLines == 3

\* three speaker ids, two of them the same number, with and without the
\* instruction phrase
RoleLines ==
    {BodyLine(par, text, "x_1000") :
        par \in {"1", "2", "01"},
        text \in {"now listen to each prompt ok ? yes", "hi there"}}

InitRole ==
    \E c \in Transcripts(RoleLines, MaxRoleLines), f \in BOOLEAN : BeginOne(c, f)

SpecRole == InitRole /\ [][Next]_vars

\* the role letters of the output's C-unit lines, in order
RECURSIVE RoleLetters(_)
RoleLetters(ol) ==
    IF ol = <<>> THEN <<>>
    ELSE (IF StartsWithAt(Head(ol), 1, "C ") \/ StartsWithAt(Head(ol), 1, "E ")
          THEN <<Char(Head(ol), 1)>>
          ELSE <<>>) \o RoleLetters(Tail(ol))

\* n times the letter r
RECURSIVE Repeat(_, _)
Repeat(r, n) == IF n = 0 THEN <<>> ELSE <<r>> \o Repeat(r, n - 1)

\* the role letters the claim asks for, from line k of the transcript on:
\* per C-unit of a matching line, E when the speaker id is the string pp
RECURSIVE RolesAsked(_, _, _)
RolesAsked(p, pp, k) ==
    IF k > Len(lines[p]) THEN <<>>
    ELSE LET u == Utterance(p, k)
         IN  (IF u.ok
              THEN Repeat(IF pp # None /\ u.par = pp THEN "E" ELSE "C",
                          Len(segment_into_c_units(u.text)))
              ELSE <<>>) \o RolesAsked(p, pp, k + 1)

\* the speaker ids that utter the instruction phrase
PromptGivers(p) ==
    {Utterance(p, k).par : k \in
        {j \in Matching(p) :
            Contains(Utterance(p, j).text, "listen to each prompt")}}

\* C5: in the returned text, the C-unit lines of an utterance carry E exactly
\* when a PromptSpeaker was resolved and the utterance's speaker id is that
\* string, and C otherwise; when 1 is the only speaker uttering the phrase,
\* every unit of 1 is E and every unit of any other id (2, and 01 too) is C,
\* whether its utterance stands before or after the phrase.
C5_Roles ==
    \A p \in Procs : Returned(p) =>
        /\ RoleLetters(OutLines(p)) = RolesAsked(p, prompt_par[p], 1)
        /\ PromptGivers(p) = {"1"} =>
               RoleLetters(OutLines(p)) = RolesAsked(p, "1", 1)
        /\ PromptGivers(p) = {} =>
               \A k \in 1..Len(RoleLetters(OutLines(p))) :
                   RoleLetters(OutLines(p))[k] = "C"

\* speaker 2 and speaker 01 talk before speaker 1 gives the instruction, and
\* the invocation has returned
C5_Witness ==
    /\ Returned(1)
    /\ Len(lines[1]) = 3
    /\ Utterance(1, 1).par = "2"
    /\ Utterance(1, 2).par = "01"
    /\ Utterance(1, 3).par = "1"
    /\ PromptGivers(1) = {"1"}
    /\ RoleLetters(OutLines(1)) = <<"C", "C", "E", "E">>

\* ------------------------------------------------------------------------
\* Inputs with prompt phrases: C6, C8, C9
\* ------------------------------------------------------------------------

PhraseOf(n) ==
    PROMPTS[CHOOSE k \in 1..Len(PROMPTS) : PROMPTS[k].name = n].phrase

\* utterances with no phrase, with one phrase in the first of two units,
\* with two phrases in one unit (in the reverse of the table's order), and
\* with one phrase in the first of three units
PromptTexts ==
    {"hi there",
     "tell a " \o PhraseOf("happy") \o " ? ok",
     "a " \o PhraseOf("problem") \o " or a " \o PhraseOf("happy"),
     "one " \o PhraseOf("important") \o " ! yes . no"}

\* the utterances, and a line that holds a phrase but is no body line
PromptLines ==
    {BodyLine("1", t, "x_1000") : t \in PromptTexts}
        \cup {"%com:\t" \o PhraseOf("angry")}

InitPrompt ==
    \E c \in Transcripts(PromptLines, MaxLines), f \in BOOLEAN : BeginOne(c, f)

SpecPrompt == InitPrompt /\ [][Next]_vars

\* the names whose phrase the text contains, among the names of ns, in order
RECURSIVE NamesIn(_, _)
NamesIn(text, ns) ==
    IF ns = <<>> THEN <<>>
    ELSE (IF Contains(text, PhraseOf(Head(ns))) THEN <<Head(ns)>> ELSE <<>>)
             \o NamesIn(text, Tail(ns))

\* the order of the table
TableOrder == <<"happy", "angry", "confused", "proud", "problem", "important">>

\* the utterances of invocation p that contain the phrase of n
Uttering(p, n) ==
    {k \in Matching(p) : Contains(Utterance(p, k).text, PhraseOf(n))}

\* ------------------------------------------------------------------------
\* C6
\* ------------------------------------------------------------------------

\* C6: with include_prompts false no written line starts with '+ ' and no
\* entry of the prompt map is true, at any moment and in the returned pair.
C6_PromptsOff ==
    \A p \in Procs : ~include_prompts[p] =>
        /\ pc[p] \in {"pass1", "pass2", "units", "done"} =>
               \A k \in 1..Len(OutLines(p)) :
                   ~StartsWithAt(OutLines(p)[k], 1, "+ ")
        /\ pc[p] \in {"pass2", "units", "done"} =>
               \A n \in PromptNames : ~prompts_found[p][n]
        /\ Returned(p) => \A n \in PromptNames : ~result[p][2][n]

\* an invocation with include_prompts false returned on a transcript with an
\* utterance holding two of the phrases
C6_Witness ==
    /\ Returned(1)
    /\ ~include_prompts[1]
    /\ Uttering(1, "happy") \cap Uttering(1, "problem") # {}
    /\ Len(OutLines(1)) >= 2

\* ------------------------------------------------------------------------
\* C8
\* ------------------------------------------------------------------------

\* a written line without its role letter
Unroled(l) ==
    IF StartsWithAt(l, 1, "C ") \/ StartsWithAt(l, 1, "E ")
    THEN SubSeq(l, 2, Len(l))
    ELSE l

RECURSIVE UnroledAll(_)
UnroledAll(ol) ==
    IF ol = <<>> THEN <<>> ELSE <<Unroled(Head(ol))>> \o UnroledAll(Tail(ol))

RECURSIVE TagsAsked(_)
TagsAsked(ns) ==
    IF ns = <<>> THEN <<>> ELSE <<"+ " \o Head(ns)>> \o TagsAsked(Tail(ns))

\* per C-unit of an utterance: its line, then the tags of the utterance
RECURSIVE UnitsAsked(_, _)
UnitsAsked(units, tags) ==
    IF units = <<>> THEN <<>>
    ELSE <<" " \o Head(units)>> \o tags \o UnitsAsked(Tail(units), tags)

\* the lines the claim asks for between the opening and the closing line,
\* from line k of the transcript on
RECURSIVE BodyAsked(_, _)
BodyAsked(p, k) ==
    IF k > Len(lines[p]) THEN <<>>
    ELSE LET u == Utterance(p, k)
         IN  (IF u.ok
              THEN UnitsAsked(segment_into_c_units(u.text),
                              IF include_prompts[p]
                              THEN TagsAsked(NamesIn(u.text, TableOrder))
                              ELSE <<>>)
              ELSE <<>>) \o BodyAsked(p, k + 1)

\* the written lines between the opening line and the closing line
BodyWritten(p) ==
    LET ol == OutLines(p)
    IN  SubSeq(ol, 2, IF ClosingAt(p) = {} THEN Len(ol) ELSE Len(ol) - 1)

\* C8: with include_prompts true, every C-unit line of an utterance is
\* followed, before the next C-unit line, by one '+ <name>' line per phrase
\* the utterance's raw text contains, in the order happy, angry, confused,
\* proud, problem, important, and by nothing when it contains none.
C8_TagsPerUnit ==
    \A p \in Procs : Returned(p) /\ include_prompts[p] =>
        UnroledAll(BodyWritten(p)) = BodyAsked(p, 1)

\* an invocation with include_prompts true returned on a transcript with a
\* three-unit utterance holding one phrase and a one-unit utterance holding
\* two
C8_Witness ==
    /\ Returned(1)
    /\ include_prompts[1]
    /\ OutLines(1) =
          <<"- 0:00",
            "C one " \o PhraseOf("important") \o ".",
            "+ important",
            "C yes.",
            "+ important",
            "C no.",
            "+ important",
            "C a " \o PhraseOf("problem") \o " or a " \o PhraseOf("happy") \o ".",
            "+ happy",
            "+ problem",
            "- 0:01">>

\* ------------------------------------------------------------------------
\* C9
\* ------------------------------------------------------------------------

\* the utterances of which the emission pass has written a C-unit
Emitted(p) ==
    {k \in Matching(p) :
        \/ pc[p] = "done"
        \/ pc[p] \in {"pass2", "units"} /\ k < idx[p]
        \/ pc[p] = "units" /\ k = idx[p] /\ cu_idx[p] > 1}

\* every entry is the answer to: has a C-unit been written of an utterance
\* whose raw text contains the phrase
C9_MapState ==
    \A p \in Procs :
        include_prompts[p] /\ pc[p] \in {"pass2", "units", "done"} =>
            \A n \in PromptNames :
                prompts_found[p][n] = (Uttering(p, n) \cap Emitted(p) # {})

\* the returned entry is true exactly when some utterance contains the phrase
C9_MapReturned ==
    \A p \in Procs :
        include_prompts[p] /\ Returned(p) =>
            \A n \in PromptNames : result[p][2][n] = (Uttering(p, n) # {})

\* the map starts all false and no entry goes back to false
C9_MapStep ==
    \A p \in Procs :
        /\ pc[p] = "pass1" /\ pc'[p] = "pass2" =>
               \A n \in PromptNames : ~prompts_found'[p][n]
        /\ pc[p] \in {"pass2", "units"} =>
               \A n \in PromptNames : prompts_found[p][n] => prompts_found'[p][n]

\* C9: with include_prompts true each entry of the prompt map starts false,
\* is true from the first C-unit of the first utterance whose raw text
\* contains its phrase, never goes back to false, and is returned true
\* exactly when some matching utterance contains the phrase.
C9_PromptMap == [](C9_MapState /\ C9_MapReturned) /\ [][C9_MapStep]_vars

\* an invocation with include_prompts true returned: a first utterance with
\* the happy phrase, a later one without it, and the entry is still true
C9_Witness ==
    /\ Returned(1)
    /\ include_prompts[1]
    /\ Len(lines[1]) = 2
    /\ Uttering(1, "happy") = {1}
    /\ Matching(1) = {1, 2}
    /\ result[1][2]["happy"]
    /\ ~result[1][2]["angry"]

\* ------------------------------------------------------------------------
\* C2
\* ------------------------------------------------------------------------

\* a transcript with the instruction phrase, and one with a header line, a
\* prompt phrase, two units and a timing code that is no number
TwoInputs ==
    {BodyLine("1", "now listen to each prompt", "x_1500"),
     "@Begin\n" \o BodyLine("2", "a " \o PhraseOf("happy") \o " ? ok", "x_b")}

\* every invocation is called, each with its own transcript and flag
InitTwo ==
    \E cs \in [Procs -> TwoInputs], fs \in [Procs -> BOOLEAN] :
        Begin(cs, fs, Procs)

SpecTwo == InitTwo /\ [][Next]_vars

MaxPieces == 5

SegPieces == {"a", " ", ".", "?", "!"}

\* the concatenations of at most n pieces
RECURSIVE Texts(_, _)
Texts(pieces, n) ==
    IF n = 0 THEN {""}
    ELSE LET shorter == Texts(pieces, n - 1)
         IN  shorter \cup {t \o x : t \in shorter, x \in pieces}

\* every text of pieces, and utterances with markup and all four endings
SegTexts ==
    Texts(SegPieces, MaxPieces)
        \cup {"a.a?a!a", "&-um hello ? <a b.> [/] a b. a. [/] a. ok"}

InitSeg == \E t \in SegTexts : BeginOne(BodyLine("1", t, "x_1000"), TRUE)

SpecSeg == InitSeg /\ [][Next]_vars

\* a C-unit as the claim describes it: something other than whitespace, one
\* period, at the end, and no other terminator
WellFormedUnit(u) ==
    /\ Strip(u) # ""
    /\ Strip(SubSeq(u, 1, Len(u) - 1)) # ""
    /\ Char(u, Len(u)) = "."
    /\ \A k \in 1..(Len(u) - 1) : Char(u, k) \notin {".", "?", "!"}

\* C3: every C-unit segment_into_c_units returns, and the text of every
\* written C/E line, is non-empty after trimming, ends with one period and
\* holds no other '.', '?' or '!'.
C3_UnitShape ==
    \A p \in Procs :
        /\ \A k \in 1..Len(c_units[p]) : WellFormedUnit(c_units[p][k])
        /\ pc[p] \in {"pass2", "units", "done"} =>
               \A k \in 1..Len(OutLines(p)) :
                   LET l == OutLines(p)[k]
                   IN  StartsWithAt(l, 1, "C ") \/ StartsWithAt(l, 1, "E ") =>
                           WellFormedUnit(SubSeq(l, 3, Len(l)))

\* the four units of an utterance whose fragments end in '.', '?', '!' and
\* nothing have been written
C3_Witness ==
    /\ Returned(1)
    /\ utterance_text[1] = "a.a?a!a"
    /\ OutLines(1) = <<"- 0:00", "C a.", "C a.", "C a.", "C a.", "- 0:01">>

\* ------------------------------------------------------------------------
\* C10
\* ------------------------------------------------------------------------

\* the longest utterance text of the repetition inputs, in pieces
MaxRepPieces == 6

RepPieces == {"a", "b", " ", "[/]"}

RepTexts == Texts(RepPieces, MaxRepPieces) \cup {"I want this [/] this now"}

InitRep == \E t \in RepTexts : BeginOne(BodyLine("1", t, "x_1000"), TRUE)

SpecRep == InitRep /\ [][Next]_vars

IsBareWord(w) == Len(w) > 0 /\ WordRunEnd(w, 1) = Len(w)

\* the utterance text is word, ' [/] ', word
IsMarkedPair(t, w1, w2) ==
    /\ t = w1 \o " [/] " \o w2
    /\ IsBareWord(w1)
    /\ IsBareWord(w2)

\* the ways to read t as word, ' [/] ', word
MarkedPairs(t) ==
    {<<SubSeq(t, 1, i - 1), SubSeq(t, i + 5, Len(t))>> :
        i \in {j \in 2..(Len(t) - 5) :
                  IsMarkedPair(t, SubSeq(t, 1, j - 1), SubSeq(t, j + 5, Len(t)))}}

\* C10: for an utterance 'w1 [/] w2' of two bare words the segmentation
\* gives '(w1) w2.' when w2 is identical to w1 and leaves the text as it is
\* when it is not; 'I want this [/] this now' gives 'I want (this) this now.'.
C10_WholeWord ==
    \A p \in Procs : pc[p] = "units" /\ cu_idx[p] = 1 =>
        /\ utterance_text[p] = "I want this [/] this now" =>
               c_units[p] = <<"I want (this) this now.">>
        /\ \A w \in MarkedPairs(utterance_text[p]) :
               c_units[p] = IF w[1] = w[2]
                            THEN <<"(" \o w[1] \o ") " \o w[2] \o ".">>
                            ELSE <<utterance_text[p] \o ".">>

\* ------------------------------------------------------------------------
\* C11
\* ------------------------------------------------------------------------

\* the longest utterance text of the filler inputs, in pieces
MaxAmpPieces == 4

AmpPieces == {"&-", "&", "-", "a", " ", "[/]", "."}

\* every text of pieces, the transcriber's filler, and a filler inside a
\* bracketed phrase whose repetition is already in parentheses
AmpTexts ==
    Texts(AmpPieces, MaxAmpPieces) \cup {"&-um hello", "<&-a> [/] (a)"}

InitAmp == \E t \in AmpTexts : BeginOne(BodyLine("1", t, "x_1000"), TRUE)

SpecAmp == InitAmp /\ [][Next]_vars

\* the positions of s where '&-' stands before a word character
FillerMarks(s) ==
    {k \in 1..Len(s) : StartsWithAt(s, k, "&-") /\ IsWord(Char(s, k + 2))}

\* the lines of the output that carry a C-unit
UnitLinesWritten(p) ==
    {k \in 1..Len(OutLines(p)) :
        \/ StartsWithAt(OutLines(p)[k], 1, "C ")
        \/ StartsWithAt(OutLines(p)[k], 1, "E ")}

\* C11: segment_into_c_units rewrites every '&-<word>' to '(<word>)' before
\* the repetition rewriting and the splitting: the text the repetition steps
\* and the split work on holds no '&-' before a word character, a text
\* without one goes through the step as it is, '&-um hello' becomes
\* '(um) hello' and the unit '(um) hello.', a filler inside a bracketed phrase
\* is already rewritten when the phrase is compared with its repetition, and
\* no '&-' before a word character is in any C-unit returned or written.
C11_Fillers ==
    \A p \in Procs :
        /\ seg_text[p] # None =>
               LET before == seg_text[p][1]
                   after  == seg_text[p][2]
               IN  /\ FillerMarks(after) = {}
                   /\ Len(after) = Len(before)
                   /\ FillerMarks(before) = {} => after = before
                   /\ FillerMarks(seg_text[p][3]) = {}
                   /\ FillerMarks(seg_text[p][4]) = {}
                   /\ \A k \in 1..Len(c_units[p]) :
                          FillerMarks(c_units[p][k]) = {}
                   /\ before = "&-um hello" =>
                          /\ after = "(um) hello"
                          /\ c_units[p] = <<"(um) hello.">>
                   /\ before = "<&-a> [/] (a)" =>
                          /\ after = "<(a)> [/] (a)"
                          /\ c_units[p] = <<"((a)) (a).">>
        /\ pc[p] \in {"pass2", "units", "done"} =>
               \A k \in UnitLinesWritten(p) : FillerMarks(OutLines(p)[k]) = {}

\* two fillers in one utterance have both been rewritten and written
C11_Witness ==
    /\ Returned(1)
    /\ seg_text[1][1] = "&-a&-a"
    /\ OutLines(1) = <<"- 0:00", "C (a)(a).", "- 0:01">>

\* ------------------------------------------------------------------------
\* C12
\* ------------------------------------------------------------------------

\* the matching lines whose utterance holds the instruction phrase
PhraseLines(p) ==
    {j \in 1..Len(lines[p]) :
        LET u == Utterance(p, j)
        IN  u.ok /\ Contains(u.text, "listen to each prompt")}

\* the speaker of the first such line in document order, None without one
FirstGiver(p) ==
    IF PhraseLines(p) = {} THEN None
    ELSE Utterance(p, First(PhraseLines(p))).par

\* the speaker of the last such line in document order, None without one
LastGiver(p) ==
    IF PhraseLines(p) = {} THEN None
    ELSE Utterance(p, CHOOSE j \in PhraseLines(p) :
                          \A i \in PhraseLines(p) : i <= j).par

\* the resolver loop has run through its last line
ResolverOver(p) == pc[p] = "pass1" /\ idx[p] > Len(lines[p])

\* C12 as stated: when the resolver pass is over, PromptSpeaker is the FIRST
\* speaker in document order whose utterance holds 'listen to each prompt',
\* and None when no utterance holds it.
C12_FirstSpeaker ==
    \A p \in Procs : ResolverOver(p) => prompt_par[p] = FirstGiver(p)

\* C12, amended: PromptSpeaker is the LAST speaker in document order whose
\* utterance holds 'listen to each prompt', and None when no utterance holds
\* it; it is None until the resolver pass sets it, it has that value when
\* the resolver pass is over and at the return, and no step of the emission
\* pass changes it.
C12_LastSpeaker ==
    /\ [](\A p \in Procs :
             /\ pc[p] \in {"start", "unused"} => prompt_par[p] = None
             /\ ResolverOver(p) \/ Returned(p) =>
                    prompt_par[p] = LastGiver(p))
    /\ [][\A p \in Procs :
             pc[p] \in {"pass2", "units", "done"} =>
                 prompt_par'[p] = prompt_par[p]]_vars

\* speaker 1 gives the instruction, speaker 2 repeats it later, and the
\* resolver pass has ended with speaker 2
C12_Witness ==
    /\ pc[1] = "pass2"
    /\ Len(lines[1]) = 2
    /\ PhraseLines(1) = {1, 2}
    /\ FirstGiver(1) = "1"
    /\ LastGiver(1) = "2"
    /\ prompt_par[1] = "2"

\* ------------------------------------------------------------------------
\* C13
\* ------------------------------------------------------------------------

\* one invocation on its own, or every invocation at once, each with its own
\* transcript and flag
InitPair ==
    \E active \in {{1}, Procs}, cs \in [Procs -> TwoInputs],
       fs \in [Procs -> BOOLEAN] :
        Begin(cs, fs, active)

SpecPair == InitPair /\ [][Next]_vars

\* per C-unit of an utterance: its line with the role r, then the tags
RECURSIVE RoledUnitsAsked(_, _, _)
RoledUnitsAsked(r, units, tags) ==
    IF units = <<>> THEN <<>>
    ELSE <<r \o " " \o Head(units)>> \o tags
             \o RoledUnitsAsked(r, Tail(units), tags)

\* the lines between the opening and the closing line that the transcript
\* asks for when the prompt speaker is pp, from line k of the transcript on
RECURSIVE LinesAsked(_, _, _)
LinesAsked(p, pp, k) ==
    IF k > Len(lines[p]) THEN <<>>
    ELSE LET u == Utterance(p, k)
         IN  (IF u.ok
              THEN RoledUnitsAsked(
                       IF pp # None /\ u.par = pp THEN "E" ELSE "C",
                       segment_into_c_units(u.text),
                       IF include_prompts[p]
                       THEN TagsAsked(NamesIn(u.text, TableOrder))
                       ELSE <<>>)
              ELSE <<>>) \o LinesAsked(p, pp, k + 1)

\* the matching lines whose timing code int() accepts
ParsedLines(p) ==
    {k \in 1..Len(lines[p]) :
        LET u == Utterance(p, k) IN u.ok /\ CodeParses(Strip(u.code))}

\* the number int() makes of the timing code of line k
CodeValue(p, k) ==
    LET segs == Split(Strip(Utterance(p, k).code), {"_"})
    IN  IntParse(segs[Len(segs)]).val

\* the number of the last timing code in document order that int() accepts,
\* 0 without one
TimeAsked(p) ==
    IF ParsedLines(p) = {} THEN 0
    ELSE CodeValue(p, CHOOSE k \in ParsedLines(p) :
                          \A j \in ParsedLines(p) : j <= k)

\* the closing line of T milliseconds, when there is one
ClosingAsked(T) ==
    IF T > 0
    THEN <<"- " \o IntStr(T \div 60000) \o ":" \o Pad02((T \div 1000) % 60)>>
    ELSE <<>>

\* the text of the lines ls, each ended by a newline
RECURSIVE TextOf(_)
TextOf(ls) == IF ls = <<>> THEN "" ELSE Head(ls) \o "\n" \o TextOf(Tail(ls))

\* what the arguments of invocation p alone determine: the text and the map
AloneResult(p) ==
    <<TextOf(<<"- 0:00">> \o LinesAsked(p, LastGiver(p), 1)
                 \o ClosingAsked(TimeAsked(p))),
      [n \in PromptNames |-> include_prompts[p] /\ Uttering(p, n) # {}]>>

\* nothing of invocation q changes
Untouched(q) ==
    /\ content'[q] = content[q]
    /\ include_prompts'[q] = include_prompts[q]
    /\ pc'[q] = pc[q]
    /\ output'[q] = output[q]
    /\ lines'[q] = lines[q]
    /\ idx'[q] = idx[q]
    /\ prompt_par'[q] = prompt_par[q]
    /\ last_timestamp'[q] = last_timestamp[q]
    /\ prompts_found'[q] = prompts_found[q]
    /\ par_num'[q] = par_num[q]
    /\ utterance_text'[q] = utterance_text[q]
    /\ c_units'[q] = c_units[q]
    /\ seg_text'[q] = seg_text[q]
    /\ prefix'[q] = prefix[q]
    /\ cu_idx'[q] = cu_idx[q]
    /\ raised'[q] = raised[q]
    /\ result'[q] = result[q]

\* C13: invocations on their own transcripts, their steps interleaved in
\* every order, each return what their own arguments determine, which is
\* what an invocation running on its own returns; every step is the step of
\* one invocation and changes the trackers, the map, the buffer and the other
\* locals of that invocation only, and no step changes an argument.
C13_Isolated ==
    /\ [](\A p \in Procs :
             /\ pc[p] \notin {"start", "unused"} =>
                    lines[p] = Split(content[p], {"\n"})
             /\ Returned(p) => result[p] = AloneResult(p))
    /\ [][/\ \E p \in Procs : \A q \in Procs \ {p} : Untouched(q)
          /\ content' = content
          /\ include_prompts' = include_prompts]_vars

\* two invocations of different transcripts have both returned, each its own
\* result: one with an E line and a closing line, one with a tagged C line
\* and no closing line
C13_Witness ==
    /\ Returned(1) /\ Returned(2)
    /\ content[1] # content[2]
    /\ include_prompts[1] /\ include_prompts[2]
    /\ result[1][1] = "- 0:00\nE now listen to each prompt.\n- 0:01\n"
    /\ result[2][1] = "- 0:00\nC a " \o PhraseOf("happy")
                          \o ".\n+ happy\nC ok.\n+ happy\n"
    /\ result[2][2]["happy"] /\ ~result[1][2]["happy"]

\* ------------------------------------------------------------------------
\* C14
\* ------------------------------------------------------------------------

\* C14: when several utterances hold 'listen to each prompt', the returned
\* PromptSpeaker is the speaker of the last of them in document order, and
\* the role of every C-unit line, those of the utterances before that last
\* sighting too, is decided against that speaker: E for its utterances, C for
\* those of every other id, the speakers of the earlier sightings among them.
C14_LastSighting ==
    \A p \in Procs : Returned(p) /\ Cardinality(PhraseLines(p)) >= 2 =>
        LET last == LastGiver(p)
        IN  /\ prompt_par[p] = last
            /\ RoleLetters(OutLines(p)) = RolesAsked(p, last, 1)

\* speaker 1 gives the instruction and talks on, speaker 2 repeats the
\* instruction on the last line: the units of 1 are C, those of 2 are E
C14_Witness ==
    /\ Returned(1)
    /\ Len(lines[1]) = 3
    /\ PhraseLines(1) = {1, 3}
    /\ Utterance(1, 1).par = "1"
    /\ Utterance(1, 2).par = "1"
    /\ Utterance(1, 3).par = "2"
    /\ OutLines(1) = <<"- 0:00",
                       "C now listen to each prompt ok.", "C yes.",
                       "C hi there.",
                       "E now listen to each prompt ok.", "E yes.",
                       "- 0:01">>

\* ------------------------------------------------------------------------
\* C15
\* ------------------------------------------------------------------------

\* the number of the last timing code of the lines ks, and otherwise t
LastOf(p, ks, t) ==
    IF ks = {} THEN t
    ELSE CodeValue(p, CHOOSE k \in ks : \A j \in ks : j <= k)

\* C15: LastTimestamp follows the last timing code in document order that
\* was parsed, not the largest: through the resolver pass it is the number of
\* the last parsed code so far (0 before the first), a later smaller code
\* taking the place of an earlier larger one; the emission pass starts from
\* the value the resolver pass ended with, without a reset, follows the codes
\* again, and ends with that same value, which decides the closing line.
C15_LastParsed ==
    \A p \in Procs : pc[p] \in {"pass1", "pass2", "units", "done"} =>
        LET parsed == ParsedLines(p)
            sofar  == {k \in parsed :
                          k < idx[p] \/ (pc[p] = "units" /\ k = idx[p])}
            final  == LastOf(p, parsed, 0)
        IN  /\ pc[p] = "pass1" => last_timestamp[p] = LastOf(p, sofar, 0)
            /\ ResolverOver(p) => last_timestamp[p] = final
            /\ pc[p] \in {"pass2", "units"} =>
                   last_timestamp[p] = LastOf(p, sofar, final)
            /\ Returned(p) =>
                   /\ last_timestamp[p] = final
                   /\ LET ol == OutLines(p)
                      IN  SubSeq(ol, Len(ol) + 1 - Cardinality(ClosingAt(p)),
                                 Len(ol)) = ClosingAsked(final)

\* a code of 61000 ms, then one of 59999 ms: the invocation returned with
\* the smaller, later one
C15_Witness ==
    /\ Returned(1)
    /\ Matching(1) = {1, 2}
    /\ Utterance(1, 1).code = "x_61000"
    /\ Utterance(1, 2).code = "x_59999"
    /\ last_timestamp[1] = 59999
    /\ OutLines(1)[Len(OutLines(1))] = "- 0:59"

\* ------------------------------------------------------------------------
\* C16
\* ------------------------------------------------------------------------

\* the matching lines whose timing code ends in a non-negative integer
WellFormedLines(p) == {k \in ParsedLines(p) : CodeValue(p, k) >= 0}

\* those of them that the running loop has been over
WellFormedSoFar(p) ==
    {k \in WellFormedLines(p) : k < idx[p] \/ (pc[p] = "units" /\ k = idx[p])}

\* C16: a timing code whose last underscore segment is not a non-negative
\* integer never changes LastTimestamp and never raises: in both passes
\* LastTimestamp is the number of the last well-formed code so far, or what
\* it was before the pass, and the C-units of an utterance with a malformed
\* code are written like those of any other.
C16_MalformedIgnored ==
    \A p \in Procs :
        /\ raised[p] = "none"
        /\ pc[p] = "pass1" =>
               last_timestamp[p] = LastOf(p, WellFormedSoFar(p), 0)
        /\ pc[p] \in {"pass2", "units"} =>
               last_timestamp[p] =
                   LastOf(p, WellFormedSoFar(p),
                          LastOf(p, WellFormedLines(p), 0))
        /\ Returned(p) =>
               /\ last_timestamp[p] = LastOf(p, WellFormedLines(p), 0)
               /\ BodyWritten(p) = LinesAsked(p, prompt_par[p], 1)

\* ------------------------------------------------------------------------
\* C17
\* ------------------------------------------------------------------------

\* the examiner's instruction with a closing time, tagged child utterances
\* of one and of three units whose codes give no closing time, and lines
\* that are no body lines
FormLines ==
    {BodyLine("1", "now listen to each prompt", "x_61000"),
     BodyLine("2", "a " \o PhraseOf("happy") \o " ? ok", "x_b"),
     BodyLine("2", "my " \o PhraseOf("problem") \o " and "
                        \o PhraseOf("angry") \o " ! ! yes . no", "x_0"),
     BodyLine("1", "hm", "x_1500"),
     "@Begin", ""}

InitForm ==
    \E c \in Transcripts(FormLines, MaxLines), f \in BOOLEAN : BeginOne(c, f)

SpecForm == InitForm /\ [][Next]_vars

\* '- M:SS': minutes in decimal, seconds on two digits
IsTimeLine(l) ==
    LET de == DigitRunEnd(l, 3)
    IN  /\ StartsWithAt(l, 1, "- ")
        /\ de >= 3
        /\ Char(l, de + 1) = ":"
        /\ Len(l) = de + 3
        /\ IsDigit(Char(l, de + 2)) /\ IsDigit(Char(l, de + 3))

\* 'C <c-unit>' or 'E <c-unit>'
IsUnitLine(l) ==
    /\ StartsWithAt(l, 1, "C ") \/ StartsWithAt(l, 1, "E ")
    /\ WellFormedUnit(SubSeq(l, 3, Len(l)))

\* '+ <name>' with a name of the table
IsTagLine(l) == \E n \in PromptNames : l = "+ " \o n

\* C17: the returned text is a sequence of newline-terminated lines: first
\* '- 0:00'; then, utterance by utterance in transcript order and C-unit by
\* C-unit in order, one '<role> <c-unit>' line followed only by the '+ <name>'
\* lines of that unit; then the closing '- M:SS' line when there is one, as
\* the last line. Every line is a time line, a C line, an E line or a tag
\* line, and tag lines only stand behind a C or E line or another tag line.
C17_Layout ==
    \A p \in Procs : Returned(p) =>
        LET ol == OutLines(p)
        IN  /\ result[p][1] = TextOf(ol)
            /\ Len(ol) >= 1 /\ ol[1] = "- 0:00"
            /\ \A k \in 1..Len(ol) :
                   /\ IsTimeLine(ol[k]) \/ IsUnitLine(ol[k]) \/ IsTagLine(ol[k])
                   /\ IsTimeLine(ol[k]) => k \in {1, Len(ol)}
                   /\ IsTagLine(ol[k]) =>
                          k > 1 /\ (IsUnitLine(ol[k - 1]) \/ IsTagLine(ol[k - 1]))
            /\ Cardinality(ClosingAt(p)) <= 1
            /\ ol = <<"- 0:00">> \o LinesAsked(p, prompt_par[p], 1)
                        \o ClosingAsked(last_timestamp[p])

\* an invocation with tags returned: an E line, the two units of a child
\* utterance each followed by its tag, and the closing line last
C17_Witness ==
    /\ Returned(1)
    /\ result[1][1] = "- 0:00\nC a " \o PhraseOf("happy") \o ".\n+ happy\n"
                          \o "C ok.\n+ happy\n"
                          \o "E now listen to each prompt.\n- 1:01\n"

\* ------------------------------------------------------------------------
\* C18
\* ------------------------------------------------------------------------

\* the positions of the terminators of t, with the positions before its
\* first and behind its last character
Cuts(t) == {0, Len(t) + 1} \cup {k \in 1..Len(t) : Char(t, k) \in {".", "?", "!"}}

\* the fragment of t that starts behind the cut a, trimmed
FragmentAt(t, a) ==
    Strip(SubSeq(t, a + 1, First({k \in Cuts(t) : k > a}) - 1))

\* the cuts behind which a fragment starts that trimming does not empty
Kept(t) == {a \in Cuts(t) \ {Len(t) + 1} : FragmentAt(t, a) # ""}

\* C18: with t the text after the rewrites, segment_into_c_units returns one
\* unit per fragment of t between terminators that is non-empty after
\* trimming, in the order of the fragments, each the trimmed fragment plus a
\* period; so a text without '.', '?' and '!' gives the one unit 'trimmed t.'
\* or, when it is empty or whitespace, no unit, and terminators that follow
\* each other with nothing or only whitespace between them give no unit.
C18_Fragments ==
    \A p \in Procs : seg_text[p] # None =>
        LET t == seg_text[p][4]
        IN  /\ Len(c_units[p]) = Cardinality(Kept(t))
            /\ \A a \in Kept(t) :
                   c_units[p][Cardinality({b \in Kept(t) : b <= a})] =
                       FragmentAt(t, a) \o "."
            /\ Cuts(t) = {0, Len(t) + 1} =>
                   c_units[p] = IF Strip(t) = "" THEN <<>>
                                ELSE <<Strip(t) \o ".">>
            /\ (\A k \in 1..Len(t) :
                    Char(t, k) \in {".", "?", "!"} \/ IsSpace(Char(t, k))) =>
                   c_units[p] = <<>>

\* a text of five pieces has gone through segmentation: two fragments with a
\* word, and between them a fragment of whitespace that gives no unit
C18_Witness ==
    /\ pc[1] = "units"
    /\ seg_text[1] # None
    /\ seg_text[1][4] = "a. ?a"
    /\ c_units[1] = <<"a.", "a.">>

\* ------------------------------------------------------------------------
\* C19
\* ------------------------------------------------------------------------

\* the longest utterance text of the phrase inputs, in pieces
MaxMultiPieces == 4

MultiPieces == {"<a b>", "<a>", " [/] ", "[/]", "a b", "a", " "}

\* every text of pieces; a repeated phrase with more text behind it; a
\* repetition that differs in its last word; a phrase that starts with a
\* space; a filler inside the brackets; a text the single-word step would
\* rewrite differently if it came first
MultiTexts ==
    Texts(MultiPieces, MaxMultiPieces)
        \cup {"<I want> [/] I want it", "<a b> [/] a c", "x < a> [/]  a",
              "<&-a b> [/] (a) b", "<a> [/] a>"}

InitMulti == \E t \in MultiTexts : BeginOne(BodyLine("1", t, "x_1000"), TRUE)

SpecMulti == InitMulti /\ [][Next]_vars

\* the first '>' behind the '<' at i, 0 without one
PhraseEnd(t, i) == FirstGt(t, i + 1)

\* the first position behind that '>' and the whitespace after it
MarkerAt(t, i) == SpaceRunEnd(t, PhraseEnd(t, i) + 1) + 1

\* the phrase between the '<' at i and that '>'
PhraseAt(t, i) == SubSeq(t, i + 1, PhraseEnd(t, i) - 1)

\* the bracketed phrases of t that a marker follows, by the position of
\* their '<': something stands between the brackets, and '[/]' behind them
MarkedPhrases(t) ==
    {i \in 1..Len(t) :
        /\ Char(t, i) = "<"
        /\ PhraseEnd(t, i) > i + 1
        /\ StartsWithAt(t, MarkerAt(t, i), "[/]")}

\* where the text behind the marker of the phrase at i, whitespace aside,
\* repeats the phrase character by character
RepeatStarts(t, i) ==
    {k \in (MarkerAt(t, i) + 3)..(SpaceRunEnd(t, MarkerAt(t, i) + 3) + 1) :
        StartsWithAt(t, k, PhraseAt(t, i))}

\* C19: the multi-word step works on the text the '&-' step returns and
\* hands its result to the single-word step. It changes the text exactly
\* when some bracketed phrase is followed by '[/]' and then, character by
\* character, by the phrase again; when the text behind every marker differs
\* from the bracketed phrase, brackets and marker stay as they are. A text
\* with one bracketed phrase that is repeated becomes the text with
\* '<phrase> [/] phrase' replaced by '(phrase) phrase'.
C19_PhraseRepeat ==
    \A p \in Procs : seg_text[p] # None =>
        LET t  == seg_text[p][2]
            u  == seg_text[p][3]
            rs == {i \in MarkedPhrases(t) : RepeatStarts(t, i) # {}}
        IN  /\ (u # t) = (rs # {})
            /\ rs = {} => u = t
            /\ Cardinality(MarkedPhrases(t)) = 1 /\ rs # {} =>
                   LET i  == CHOOSE y \in rs : TRUE
                       ph == PhraseAt(t, i)
                       k  == CHOOSE a \in RepeatStarts(t, i) :
                                 \A b \in RepeatStarts(t, i) : b <= a
                   IN  u = SubSeq(t, 1, i - 1) \o "(" \o ph \o ") " \o ph
                               \o SubSeq(t, k + Len(ph), Len(t))
            /\ seg_text[p][1] = "<I want> [/] I want it" =>
                   u = "(I want) I want it"
            /\ seg_text[p][1] = "<a b> [/] a c" => u = "<a b> [/] a c"
            /\ seg_text[p][1] = "<&-a b> [/] (a) b" =>
                   /\ t = "<(a) b> [/] (a) b"
                   /\ u = "((a) b) (a) b"
            /\ seg_text[p][1] = "<a> [/] a>" =>
                   /\ u = "(a) a>"
                   /\ seg_text[p][4] = "(a) a>"

\* a phrase of two words, repeated with more text behind it, has been
\* rewritten and the unit is there
C19_Witness ==
    /\ pc[1] = "units"
    /\ seg_text[1] # None
    /\ seg_text[1][2] = "<a b> [/] a ba"
    /\ seg_text[1][3] = "(a b) a ba"
    /\ c_units[1] = <<"(a b) a ba.">>

\* ------------------------------------------------------------------------
\* C20
\* ------------------------------------------------------------------------

\* the longest line of the body-line inputs, in pieces behind '*PAR1:'
MaxBodyPieces == 5

BodyPieces == {" ", "\t", "a", ".", " . ", "a_b"}

\* every line of pieces behind a speaker field; lines with a delimiter inside
\* the text, with other delimiters, with a longer id and with a carriage
\* return; and a transcript of two matching lines
BodyTranscripts ==
    {"*PAR1:" \o t : t \in Texts(BodyPieces, MaxBodyPieces)}
        \cup {"*PAR1:\ta . a . a_b", "*PAR12:  so ? yes ! x_1\r",
              "*PAR1: a  a_b", "*PAR1:\ta b . c . d_e_f",
              "*PAR1:\ta . b_1\n*PAR2:  . c_2"}

InitBody == \E c \in BodyTranscripts, f \in BOOLEAN : BeginOne(c, f)

SpecBody == InitBody /\ [][Next]_vars

\* the position of the last whitespace character of l, 0 without one
LastSpaceOf(l) ==
    LET at == {k \in 1..Len(l) : IsSpace(Char(l, k))}
    IN  IF at = {} THEN 0 ELSE CHOOSE k \in at : \A j \in at : j <= k

\* the triple the claim describes for the normalized line l: the digits of
\* the speaker field; the last whitespace-free token; and what stands between
\* the whitespace behind the colon and the space before the character that
\* stands before the space before that token
TripleAsked(l) ==
    LET de == DigitRunEnd(l, 5)
        ls == LastSpaceOf(l)
    IN  [par  |-> SubSeq(l, 5, de),
         text |-> LStripSpace(SubSeq(l, de + 2, ls - 3)),
         code |-> SubSeq(l, ls + 1, Len(l))]

\* the line the loop of invocation p has matched last
LineDone(p) ==
    IF pc[p] = "units" THEN idx[p]
    ELSE LET at == {k \in Matching(p) : k < idx[p]}
         IN  IF at = {} THEN 0 ELSE CHOOSE k \in at : \A j \in at : j <= k

\* C20: on a normalized line that matches the body pattern, the timing code
\* is the last whitespace-free token of the line, a space stands before it,
\* the delimiter is the one character before that space, a space stands
\* before the delimiter, and the utterance text is everything between the
\* whitespace behind the colon and that space; both passes take this same
\* speaker id and text from every matching line.
C20_Triple ==
    \A p \in Procs : pc[p] \in {"pass1", "pass2", "units", "done"} =>
        /\ \A k \in Matching(p) :
               LET l  == RStrip(lines[p][k], StripChars)
                   ls == LastSpaceOf(l)
                   u  == Utterance(p, k)
               IN  /\ Char(l, ls) = " "
                   /\ Char(l, ls - 2) = " "
                   /\ Char(l, ls - 1) # ""
                   /\ [par |-> u.par, text |-> u.text, code |-> u.code] =
                          TripleAsked(l)
        /\ pc[p] # "done" /\ LineDone(p) > 0 =>
               LET l == RStrip(lines[p][LineDone(p)], StripChars)
               IN  /\ par_num[p] = TripleAsked(l).par
                   /\ utterance_text[p] = TripleAsked(l).text

\* the emission pass stands on a line whose text holds a delimiter of its
\* own: the text runs up to the last one
C20_Witness ==
    /\ pc[1] = "units"
    /\ lines[1][idx[1]] = "*PAR1:\ta . a . a_b"
    /\ par_num[1] = "1"
    /\ utterance_text[1] = "a . a"
    /\ Utterance(1, idx[1]).code = "a_b"

\* ------------------------------------------------------------------------
\* streamlit_app.py: the engine copy of the web front end
\* ------------------------------------------------------------------------

\* body_line_regex.match(line): the pattern of the copy is, character by
\* character, r'^\*PAR(\d+):\s+(.*) . (\S+_\S+)$'
body_line_regex(line) == BodyMatch(line)

\* the loop over raw_units of the copy's segment_into_c_units
RECURSIVE FileFinishUnits(_)
FileFinishUnits(raw_units) ==
    IF raw_units = <<>> THEN <<>>
    ELSE LET unit == Strip(Head(raw_units))
         IN  IF unit # ""
             THEN <<IF Char(unit, Len(unit)) = "." THEN unit ELSE unit \o ".">>
                      \o FileFinishUnits(Tail(raw_units))
             ELSE FileFinishUnits(Tail(raw_units))

\* segment_into_c_units of streamlit_app.py: the three re.sub calls with the
\* patterns of the copy, re.split(r'[.?!]', text) and the loop
FileSegment(text) ==
    FileFinishUnits(Split(SubSingle(SubMulti(SubAmp(text))), {".", "?", "!"}))

\* the inner try block of the copy: except (ValueError, IndexError): pass
FileExtractTimestamp(timestamp_code, last) ==
    LET segs == Split(timestamp_code, {"_"})
        r    == IF Len(segs) = 0
                THEN [raised |-> "IndexError", val |-> 0]
                ELSE IntParse(segs[Len(segs)])
    IN  IF r.raised = "none"
        THEN [raised |-> "none", ts |-> r.val]
        ELSE IF r.raised \in {"ValueError", "IndexError"}
             THEN [raised |-> "none", ts |-> last]
             ELSE [raised |-> r.raised, ts |-> last]

\* the dict literal prompts_found of the copy
FilePromptsFound ==
    [n \in {"happy", "angry", "confused", "proud", "problem", "important"}
        |-> FALSE]

\* the six tests of the copy with the names sorted: angry, confused, happy,
\* important, problem, proud
FileTagLinesSorted(text) ==
    (IF Contains(text, "story about a time when you were really annoyed or angry")
     THEN "+ angry\n" ELSE "")
    \o (IF Contains(text, "story about a time when you felt worried or confused")
        THEN "+ confused\n" ELSE "")
    \o (IF Contains(text, "story about a time when you felt excited or really happy")
        THEN "+ happy\n" ELSE "")
    \o (IF Contains(text, "story about something that has happened to you that was very important to you")
        THEN "+ important\n" ELSE "")
    \o (IF Contains(text, "story about a time when you had a problem")
        THEN "+ problem\n" ELSE "")
    \o (IF Contains(text, "story about a time when you felt proud of yourself")
        THEN "+ proud\n" ELSE "")

\* the six `if '<phrase>' in utterance_text:` of the copy, in the order they
\* are written: the '+ <name>' lines of one C-unit
FileTagLines(text) ==
    (IF Contains(text, "story about a time when you felt excited or really happy")
     THEN "+ happy\n" ELSE "")
    \o (IF Contains(text, "story about a time when you were really annoyed or angry")
        THEN "+ angry\n" ELSE "")
    \o (IF Contains(text, "story about a time when you felt worried or confused")
        THEN "+ confused\n" ELSE "")
    \o (IF Contains(text, "story about a time when you felt proud of yourself")
        THEN "+ proud\n" ELSE "")
    \o (IF Contains(text, "story about a time when you had a problem")
        THEN "+ problem\n" ELSE "")
    \o (IF Contains(text, "story about something that has happened to you that was very important to you")
        THEN "+ important\n" ELSE "")

\* the same six tests: prompts_found['<name>'] = True
FileMarkFound(found, text) ==
    LET f1 == IF Contains(text, "story about a time when you felt excited or really happy")
              THEN [found EXCEPT !["happy"] = TRUE] ELSE found
        f2 == IF Contains(text, "story about a time when you were really annoyed or angry")
              THEN [f1 EXCEPT !["angry"] = TRUE] ELSE f1
        f3 == IF Contains(text, "story about a time when you felt worried or confused")
              THEN [f2 EXCEPT !["confused"] = TRUE] ELSE f2
        f4 == IF Contains(text, "story about a time when you felt proud of yourself")
              THEN [f3 EXCEPT !["proud"] = TRUE] ELSE f3
        f5 == IF Contains(text, "story about a time when you had a problem")
              THEN [f4 EXCEPT !["problem"] = TRUE] ELSE f4
    IN  IF Contains(text, "story about something that has happened to you that was very important to you")
        THEN [f5 EXCEPT !["important"] = TRUE] ELSE f5

\* the closing line of the copy, "" when none is written
FileClosingLine(ts) ==
    IF ts > 0
    THEN LET total_seconds == ts \div 1000
             minutes       == total_seconds \div 60
             seconds       == total_seconds % 60
         IN  "- " \o IntStr(minutes) \o ":" \o Pad02(seconds) \o "\n"
    ELSE ""

\* except Exception as e: return f"Error processing file: {str(e)}", {}
\* (the exception's name stands for its message)
FileError(e) == <<"Error processing file: " \o e, <<>>>>

\* entry of process_cha_file: output = StringIO(), and inside the try block
\* lines = file_content.split('\n'), prompt_par = None, last_timestamp = 0
FileEnter(p) ==
    /\ pc[p] = "file_start"
    /\ output' = [output EXCEPT ![p] = ""]
    /\ lines' = [lines EXCEPT ![p] = Split(content[p], {"\n"})]
    /\ prompt_par' = [prompt_par EXCEPT ![p] = None]
    /\ last_timestamp' = [last_timestamp EXCEPT ![p] = 0]
    /\ idx' = [idx EXCEPT ![p] = 1]
    /\ pc' = [pc EXCEPT ![p] = "file_pass1"]
    /\ UNCHANGED <<content, include_prompts, prompts_found, par_num,
                   utterance_text, c_units, seg_text, prefix, cu_idx, raised,
                   result>>

\* one turn of the first loop of the copy; an exception that leaves the inner
\* try block reaches the outer handler, which returns
FilePass1Line(p) ==
    /\ pc[p] = "file_pass1"
    /\ idx[p] <= Len(lines[p])
    /\ LET line == RStrip(lines[p][idx[p]], StripChars)
           utterance_match == body_line_regex(line)
           t    == FileExtractTimestamp(Strip(utterance_match.code),
                                        last_timestamp[p])
       IN  IF ~utterance_match.ok
           THEN /\ idx' = [idx EXCEPT ![p] = @ + 1]
                /\ UNCHANGED <<pc, par_num, utterance_text, last_timestamp,
                               prompt_par, raised, result>>
           ELSE /\ par_num' = [par_num EXCEPT ![p] = utterance_match.par]
                /\ utterance_text' =
                       [utterance_text EXCEPT ![p] = utterance_match.text]
                /\ last_timestamp' = [last_timestamp EXCEPT ![p] = t.ts]
                /\ IF t.raised # "none"
                   THEN /\ raised' = [raised EXCEPT ![p] = t.raised]
                        /\ result' = [result EXCEPT ![p] = FileError(t.raised)]
                        /\ pc' = [pc EXCEPT ![p] = "file_done"]
                        /\ UNCHANGED <<idx, prompt_par>>
                   ELSE /\ prompt_par' = [prompt_par EXCEPT ![p] =
                               IF Contains(utterance_match.text,
                                           "listen to each prompt")
                               THEN utterance_match.par
                               ELSE @]
                        /\ idx' = [idx EXCEPT ![p] = @ + 1]
                        /\ UNCHANGED <<pc, raised, result>>
    /\ UNCHANGED <<content, include_prompts, output, lines, prompts_found,
                   c_units, seg_text, prefix, cu_idx>>

\* between the loops of the copy: the dict literal, then the opening line
FileStartPass2(p) ==
    /\ pc[p] = "file_pass1"
    /\ idx[p] > Len(lines[p])
    /\ prompts_found' = [prompts_found EXCEPT ![p] = FilePromptsFound]
    /\ output' = [output EXCEPT ![p] = @ \o "- 0:00\n"]
    /\ idx' = [idx EXCEPT ![p] = 1]
    /\ pc' = [pc EXCEPT ![p] = "file_pass2"]
    /\ UNCHANGED <<content, include_prompts, lines, prompt_par, last_timestamp,
                   par_num, utterance_text, c_units, seg_text, prefix,
                   cu_idx, raised, result>>

\* one turn of the second loop of the copy, up to the loop over the C-units
FilePass2Line(p) ==
    /\ pc[p] = "file_pass2"
    /\ idx[p] <= Len(lines[p])
    /\ LET line  == RStrip(lines[p][idx[p]], StripChars)
           utterance_match == body_line_regex(line)
           t     == FileExtractTimestamp(Strip(utterance_match.code),
                                         last_timestamp[p])
           units == FileSegment(utterance_match.text)
       IN  IF ~utterance_match.ok
           THEN /\ idx' = [idx EXCEPT ![p] = @ + 1]
                /\ UNCHANGED <<pc, par_num, utterance_text, last_timestamp,
                               c_units, prefix, cu_idx, raised, result>>
           ELSE /\ par_num' = [par_num EXCEPT ![p] = utterance_match.par]
                /\ utterance_text' =
                       [utterance_text EXCEPT ![p] = utterance_match.text]
                /\ last_timestamp' = [last_timestamp EXCEPT ![p] = t.ts]
                /\ IF t.raised # "none"
                   THEN /\ raised' = [raised EXCEPT ![p] = t.raised]
                        /\ result' = [result EXCEPT ![p] = FileError(t.raised)]
                        /\ pc' = [pc EXCEPT ![p] = "file_done"]
                        /\ UNCHANGED <<idx, c_units, prefix, cu_idx>>
                   ELSE /\ c_units' = [c_units EXCEPT ![p] = units]
                        /\ prefix' = [prefix EXCEPT ![p] =
                               IF /\ prompt_par[p] # None
                                  /\ prompt_par[p] # ""
                                  /\ utterance_match.par = prompt_par[p]
                               THEN "E"
                               ELSE "C"]
                        /\ cu_idx' = [cu_idx EXCEPT ![p] = 1]
                        /\ IF units = <<>>
                           THEN /\ idx' = [idx EXCEPT ![p] = @ + 1]
                                /\ UNCHANGED pc
                           ELSE /\ pc' = [pc EXCEPT ![p] = "file_units"]
                                /\ UNCHANGED idx
                        /\ UNCHANGED <<raised, result>>
    /\ UNCHANGED <<content, include_prompts, output, lines, prompt_par,
                   prompts_found, seg_text>>

\* one turn of `for cu in c_units` of the copy: the unit's line, and under
\* `if include_prompts:` the six tests
FileEmitUnit(p) ==
    /\ pc[p] = "file_units"
    /\ cu_idx[p] <= Len(c_units[p])
    /\ output' = [output EXCEPT ![p] =
                     @ \o prefix[p] \o " " \o c_units[p][cu_idx[p]] \o "\n"
                       \o (IF include_prompts[p]
                           THEN FileTagLines(utterance_text[p])
                           ELSE "")]
    /\ prompts_found' = [prompts_found EXCEPT ![p] =
                            IF include_prompts[p]
                            THEN FileMarkFound(@, utterance_text[p])
                            ELSE @]
    /\ cu_idx' = [cu_idx EXCEPT ![p] = @ + 1]
    /\ IF cu_idx[p] = Len(c_units[p])
       THEN /\ pc' = [pc EXCEPT ![p] = "file_pass2"]
            /\ idx' = [idx EXCEPT ![p] = @ + 1]
       ELSE UNCHANGED <<pc, idx>>
    /\ UNCHANGED <<content, include_prompts, lines, prompt_par, last_timestamp,
                   par_num, utterance_text, c_units, seg_text, prefix, raised,
                   result>>

\* after the second loop of the copy: the closing line and the return
FileFinish(p) ==
    /\ pc[p] = "file_pass2"
    /\ idx[p] > Len(lines[p])
    /\ output' = [output EXCEPT ![p] = @ \o FileClosingLine(last_timestamp[p])]
    /\ result' = [result EXCEPT ![p] = <<output'[p], prompts_found[p]>>]
    /\ pc' = [pc EXCEPT ![p] = "file_done"]
    /\ UNCHANGED <<content, include_prompts, lines, idx, prompt_par,
                   last_timestamp, prompts_found, par_num, utterance_text,
                   c_units, seg_text, prefix, cu_idx, raised>>

\* the steps of both engines
NextBoth ==
    \E p \in Procs :
        \/ Enter(p)
        \/ Pass1Line(p)
        \/ StartPass2(p)
        \/ Pass2Line(p)
        \/ EmitUnit(p)
        \/ Finish(p)
        \/ FileEnter(p)
        \/ FilePass1Line(p)
        \/ FileStartPass2(p)
        \/ FilePass2Line(p)
        \/ FileEmitUnit(p)
        \/ FileFinish(p)

\* transcript lines for the two engines: the examiner's line, a child's line
\* with two phrases, two units and an empty last code segment, a header, and
\* a line with markup, a carriage return and a signed code
FileLines ==
    <<BodyLine("1", "now listen to each prompt", "x_61000"),
      BodyLine("2", "a " \o PhraseOf("happy") \o " ? " \o PhraseOf("angry"),
               "a_b_"),
      "@Begin",
      BodyLine("1", PhraseOf("problem") \o " ! <I want> [/] I want &-um it",
               "x_-5") \o "\r">>

\* the same transcript and the same flag are given to process_cha_content
\* (invocation 1) and to process_cha_file (invocation 2)
InitBoth ==
    \E c \in Transcripts({FileLines[k] : k \in DOMAIN FileLines}, MaxLines),
       f \in BOOLEAN :
        /\ content = [p \in Procs |-> IF p \in {1, 2} THEN c ELSE None]
        /\ include_prompts = [p \in Procs |-> p \in {1, 2} /\ f]
        /\ pc = [p \in Procs |-> IF p = 1 THEN "start"
                                 ELSE IF p = 2 THEN "file_start"
                                 ELSE "unused"]
        /\ output = [p \in Procs |-> None]
        /\ lines = [p \in Procs |-> None]
        /\ idx = [p \in Procs |-> 0]
        /\ prompt_par = [p \in Procs |-> None]
        /\ last_timestamp = [p \in Procs |-> 0]
        /\ prompts_found = [p \in Procs |-> None]
        /\ par_num = [p \in Procs |-> None]
        /\ utterance_text = [p \in Procs |-> None]
        /\ c_units = [p \in Procs |-> <<>>]
        /\ seg_text = [p \in Procs |-> None]
        /\ prefix = [p \in Procs |-> None]
        /\ cu_idx = [p \in Procs |-> 0]
        /\ raised = [p \in Procs |-> "none"]
        /\ result = [p \in Procs |-> None]

SpecBoth == InitBoth /\ [][NextBoth]_vars

\* where an invocation of the copy stands
FilePlaces == {"file_start", "file_pass1", "file_pass2", "file_units",
               "file_done"}

\* C21: process_cha_file never takes its exception branch, and once it and
\* process_cha_content have both returned for the same transcript and the same
\* flag, the two pairs (output text, prompt map) are equal: the same text,
\* with the '+' lines in the same order, and a map with the same six keys.
C21_SameResult ==
    \A p, q \in Procs :
        /\ pc[q] \in FilePlaces => raised[q] = "none"
        /\ /\ pc[p] = "done" /\ pc[q] = "file_done"
           /\ content[p] = content[q]
           /\ include_prompts[p] = include_prompts[q]
           => /\ result[q] = result[p]
              /\ result[q][1] = output[p]
              /\ DOMAIN result[q][2] = PromptNames
              /\ SubSeq(result[q][1], 1, 6) = "- 0:00"

\* both engines have returned for a transcript of an examiner's line and a
\* child's line with two prompt phrases and two C-units: the copy's text has
\* '+ happy' before '+ angry' after each unit, and a closing line
C21_Witness ==
    /\ pc[1] = "done" /\ pc[2] = "file_done"
    /\ include_prompts[2]
    /\ content[2] = FileLines[1] \o "\n" \o FileLines[2]
    /\ result[2][1] =
           "- 0:00\nE now listen to each prompt.\nC a " \o PhraseOf("happy")
               \o ".\n+ happy\n+ angry\nC " \o PhraseOf("angry")
               \o ".\n+ happy\n+ angry\n- 1:01\n"
    /\ result[2][2]["happy"] /\ result[2][2]["angry"]
    /\ ~result[2][2]["proud"]
    /\ result[1] = result[2]
====
